---- MODULE Spec2Model ----
(***************************************************************************)
(* FHELaunchPrice: the on-chain encrypted store (FHELaunchPrice.sol) and   *)
(* the client request orchestrator (useLaunchPrice.ts).                    *)
(*                                                                         *)
(* The contract keeps three address-keyed mappings.  The FHE library it    *)
(* calls (FHE.fromExternal, FHE.allow, FHE.allowThis) is modelled by what  *)
(* the contract and its tests rely on: an input is bound to the user and   *)
(* contract it was created for, the proof attests that binding, and the    *)
(* access-control list is kept per ciphertext handle.                      *)
(***************************************************************************)
EXTENDS Naturals, Integers, Sequences, FiniteSets, TLC

\* ------------------------------------------------------------------ bounds
MaxHandles == 4     \* encrypted inputs that exist in one run
MaxSubmits == 3     \* successful submissions in one run
MaxTime    == 2     \* block timestamps 1..MaxTime
MaxCalls   == 2     \* submitValue invocations in one session

\* --------------------------------------------------------------- constants
\* A 32-bit unsigned value is written as its two 16-bit halves <<high, low>>:
\* 4294967295 = 65535 * 65536 + 65535.
U32(high, low) == <<high, low>>
Max32      == U32(65535, 65535)   \* 2 ** 32 - 1, the largest euint32
Zero32     == U32(0, 0)
ZeroHandle == 0                   \* default value of a euint32 mapping slot

This    == "contract"             \* address(this)
Users   == {"charlie", "dana"}    \* addresses that send transactions
Addr    == Users \cup {This}
Handles == 1..MaxHandles
UserOrder  == <<"charlie", "dana">>
GuessOrder == <<Zero32, Max32>>   \* plaintexts handed to add32

Denied  == <<-1, -1>>             \* user decryption refused
NoGuess == <<-2, -2>>             \* no plaintext submitted so far
NoData  == -1                     \* a read that has returned nothing yet
Undefined == [handle |-> NoData, value |-> <<-3, -3>>]   \* no clear value

\* A JavaScript number that is an integer below 2 ** 32 is written in the U32
\* form <<high, low>>; any other non-negative number as <<top, high, low>>
\* followed by its fractional decimal digits, top counting multiples of 2 ** 32.
NaN  == <<-4, -4>>                \* Number(".")
Null == <<-5, -5>>                \* null
Digits == <<"0", "1", "2", "3", "4", "5", "6", "7", "8", "9">>

MOCK_CHAIN_ID_SEPOLIA == 11155111 \* the chain the contract is deployed on
OtherChain == 1                   \* a chain without a deployment
NoChain    == 0                   \* chainId while nothing is connected

VARIABLES
    _encryptedGuesses,  \* mapping(address => euint32)
    _hasSubmitted,      \* mapping(address => bool)
    _lastGuessTime,     \* mapping(address => uint256)
    acl,                \* FHE permission system: handle -> allowed addresses
    events,             \* PriceGuessSubmitted log: per indexed participant, the timestamps
    blockTimestamp,     \* block.timestamp of the block being built
    lastGuess,          \* per address, the plaintext of its last accepted input
    granted,            \* per address, the other users it granted successfully
    reverted,           \* revert reason of the transaction the last step ran, "" if none
    \* ---- the session of useLaunchPrice
    wallet,             \* useWagmiEthers / useDeployedContractInfo: what is connected
    busy,               \* useState(false)
    status,             \* useState("")
    rendered,           \* the values the closures of the last render captured
    calls,              \* the submitValue invocations of the session
    issued,             \* handles the encryption subsystem has returned
    rawValue,           \* data of useReadContract(encryptedGuessOf), NoData while undefined
    results,            \* useFHEDecrypt: handle -> plaintext of the last decryption
    decrypting,         \* the decryption request in progress, NotDecrypting if none
    decryptMsg,         \* useFHEDecrypt: message
    \* ---- the component FHELaunchPrice
    predictedPrice,     \* useState<number | null>(null)
    submittedPrice,     \* useState<number | null>(null)
    awaiting,           \* per invocation, the price of the handleSubmit awaiting it
    effectDeps          \* [valueDecrypted, clearValue] the effect last ran with

chain == <<_encryptedGuesses, _hasSubmitted, _lastGuessTime, acl, events>>
ledger == <<chain, blockTimestamp, lastGuess, granted, reverted>>
decryption == <<results, decrypting, decryptMsg>>
page   == <<predictedPrice, submittedPrice, awaiting, effectDeps>>
hook   == <<wallet, busy, status, rendered, calls, issued, rawValue, decryption,
            page>>
vars   == <<_encryptedGuesses, _hasSubmitted, _lastGuessTime, acl, events,
            blockTimestamp, lastGuess, granted, reverted,
            wallet, busy, status, rendered, calls, issued, rawValue,
            results, decrypting, decryptMsg,
            predictedPrice, submittedPrice, awaiting, effectDeps>>

\* ------------------------------------------------------- FHE subsystem
\* a builder that drops the high half of the value
add32_low16(v) == U32(0, v[2])

\* add32 takes a 32-bit unsigned value and encrypts all of it
add32(v) == v

\* createEncryptedInput(contractAddr, user).add32(v).encrypt(): the input
\* is bound to the contract and the user, and carries the encryption of v
createEncryptedInput(c, u, v) ==
    [user |-> u, contract |-> c, plain |-> v, val |-> add32(v)]

\* the inputs of a run: handle h is the h-th input created; the users take
\* turns and each value is encrypted afresh (a new handle) every time
ciphertexts ==
    [h \in Handles |->
        createEncryptedInput(This, UserOrder[((h - 1) % 2) + 1],
                             GuessOrder[(((h - 1) \div 2) % 2) + 1])]

\* a verifier that does not bind the input to the sender
VerifyProof_anyUser(h, p, sender) ==
    /\ h \in Handles
    /\ p = h
    /\ ciphertexts[h].contract = This

\* the proof of input p attests handle p for the user and contract it names
VerifyProof(h, p, sender) ==
    /\ h \in Handles
    /\ p = h
    /\ ciphertexts[h].user = sender
    /\ ciphertexts[h].contract = This

\* a grant that replaces the list instead of extending it
FHE_allow_replace(a, h, who) == [a EXCEPT ![h] = {who}]

\* FHE.allow(handle, who): who is added to the handle's persistent list
FHE_allow(a, h, who) == [a EXCEPT ![h] = @ \cup {who}]

\* an allowThis that grants nothing
FHE_allowThis_skip(a, h) == a

\* FHE.allowThis(handle)
FHE_allowThis(a, h) == FHE_allow(a, h, This)

\* userDecryptEuint(euint32, handle, contractAddr, user)
userDecryptEuint(h, c, u) ==
    IF h \in Handles /\ u \in acl[h] /\ c \in acl[h]
    THEN ciphertexts[h].val
    ELSE Denied

\* ------------------------------------------------------------- contract
hasSubmitted(user)       == _hasSubmitted[user]
encryptedGuessOf(user)   == _encryptedGuesses[user]
lastGuessTimestamp(user) == _lastGuessTime[user]

\* ------------------------------------------------------ session values
Account == UserOrder[1]           \* accounts[0] once the wallet is connected
CallIds == 1..MaxCalls

\* accounts, chainId, hasContract (address and abi known), ethersSigner
Disconnected == [account |-> "none", chainId |-> NoChain,
                 hasContract |-> FALSE, signer |-> FALSE]
WalletStates ==
    { Disconnected,
      [account |-> Account, chainId |-> OtherChain,
       hasContract |-> FALSE, signer |-> TRUE],
      [account |-> Account, chainId |-> MOCK_CHAIN_ID_SEPOLIA,
       hasContract |-> TRUE, signer |-> FALSE],
      [account |-> Account, chainId |-> MOCK_CHAIN_ID_SEPOLIA,
       hasContract |-> TRUE, signer |-> TRUE] }

\* what a render hands to the closures and effects it creates
Snapshot(w, b, m) == [busy |-> b, account |-> w.account, chainId |-> w.chainId,
                      hasContract |-> w.hasContract, signer |-> w.signer,
                      decryptMsg |-> m]

NotCalled == [pc |-> "idle", amount |-> NoGuess, handle |-> ZeroHandle,
              encrypted |-> FALSE, written |-> FALSE, signer |-> FALSE,
              account |-> "none", chainId |-> NoChain, steps |-> <<>>]

NotDecrypting == [handle |-> ZeroHandle, user |-> "none"]

Init ==
    /\ _encryptedGuesses = [a \in Addr |-> ZeroHandle]
    /\ _hasSubmitted     = [a \in Addr |-> FALSE]
    /\ _lastGuessTime    = [a \in Addr |-> 0]
    /\ acl               = [h \in Handles \cup {ZeroHandle} |-> {}]
    /\ events            = [a \in Addr |-> <<>>]
    /\ blockTimestamp    = 1
    /\ lastGuess         = [a \in Addr |-> NoGuess]
    /\ granted           = [a \in Addr |-> {}]
    /\ reverted          = ""
    /\ wallet            = Disconnected
    /\ busy              = FALSE
    /\ status            = ""
    /\ rendered          = Snapshot(Disconnected, FALSE, "")
    /\ calls             = [i \in CallIds |-> NotCalled]
    /\ issued            = {}
    /\ rawValue          = NoData
    /\ results           = <<>>
    /\ decrypting        = NotDecrypting
    /\ decryptMsg        = ""
    /\ predictedPrice    = Null
    /\ submittedPrice    = Null
    /\ awaiting          = [i \in CallIds |-> Null]
    /\ effectDeps        = <<FALSE, Undefined>>

\* number of PriceGuessSubmitted events emitted so far
EventCount == Len(events[UserOrder[1]]) + Len(events[UserOrder[2]])

\* the note kept beside the contract: plaintext behind the accepted input
NoteGuess(sender, internalEnc) ==
    /\ EventCount < MaxSubmits
    /\ lastGuess' = [lastGuess EXCEPT ![sender] = ciphertexts[internalEnc].plain]
    /\ UNCHANGED granted

\* a store that keeps the first ciphertext of an address
StoreGuess_keepFirst(sender, internalEnc) ==
    /\ _encryptedGuesses' = IF _hasSubmitted[sender] THEN _encryptedGuesses
                            ELSE [_encryptedGuesses EXCEPT ![sender] = internalEnc]
    /\ _hasSubmitted'     = [_hasSubmitted EXCEPT ![sender] = TRUE]
    /\ _lastGuessTime'    = [_lastGuessTime EXCEPT ![sender] = blockTimestamp]
    /\ acl' = FHE_allowThis(FHE_allow(acl, _encryptedGuesses'[sender], sender),
                            _encryptedGuesses'[sender])
    /\ events' = [events EXCEPT ![sender] = Append(@, blockTimestamp)]

\* a store with one timestamp for all addresses
StoreGuess_globalTime(sender, internalEnc) ==
    /\ _encryptedGuesses' = [_encryptedGuesses EXCEPT ![sender] = internalEnc]
    /\ _hasSubmitted'     = [_hasSubmitted EXCEPT ![sender] = TRUE]
    /\ _lastGuessTime'    = [a \in Addr |-> blockTimestamp]
    /\ acl' = FHE_allowThis(FHE_allow(acl, _encryptedGuesses'[sender], sender),
                            _encryptedGuesses'[sender])
    /\ events' = [events EXCEPT ![sender] = Append(@, blockTimestamp)]

\* a store that flips the flag instead of setting it
StoreGuess_toggleFlag(sender, internalEnc) ==
    /\ _encryptedGuesses' = [_encryptedGuesses EXCEPT ![sender] = internalEnc]
    /\ _hasSubmitted'     = [_hasSubmitted EXCEPT ![sender] = ~@]
    /\ _lastGuessTime'    = [_lastGuessTime EXCEPT ![sender] = blockTimestamp]
    /\ acl' = FHE_allowThis(FHE_allow(acl, _encryptedGuesses'[sender], sender),
                            _encryptedGuesses'[sender])
    /\ events' = [events EXCEPT ![sender] = Append(@, blockTimestamp)]

\* a store that writes the timestamp only on the first submission
StoreGuess_firstTime(sender, internalEnc) ==
    /\ _encryptedGuesses' = [_encryptedGuesses EXCEPT ![sender] = internalEnc]
    /\ _hasSubmitted'     = [_hasSubmitted EXCEPT ![sender] = TRUE]
    /\ _lastGuessTime'    = IF _hasSubmitted[sender] THEN _lastGuessTime
                            ELSE [_lastGuessTime EXCEPT ![sender] = blockTimestamp]
    /\ acl' = FHE_allowThis(FHE_allow(acl, _encryptedGuesses'[sender], sender),
                            _encryptedGuesses'[sender])
    /\ events' = [events EXCEPT ![sender] = Append(@, blockTimestamp)]

\* the body of submitPriceGuess after the input was accepted
StoreGuess(sender, internalEnc) ==
    /\ _encryptedGuesses' = [_encryptedGuesses EXCEPT ![sender] = internalEnc]
    /\ _hasSubmitted'     = [_hasSubmitted EXCEPT ![sender] = TRUE]
    /\ _lastGuessTime'    = [_lastGuessTime EXCEPT ![sender] = blockTimestamp]
    /\ acl' = FHE_allowThis(FHE_allow(acl, _encryptedGuesses'[sender], sender),
                            _encryptedGuesses'[sender])
    /\ events' = [events EXCEPT ![sender] = Append(@, blockTimestamp)]

\* a submission that stores whatever handle it is given
submitPriceGuess_unchecked(sender, encryptedGuess, zkProof) ==
    IF encryptedGuess \in Handles
    THEN /\ NoteGuess(sender, encryptedGuess)
         /\ StoreGuess(sender, encryptedGuess)
         /\ reverted' = ""
    ELSE /\ reverted' = "InvalidProof"
         /\ UNCHANGED <<chain, lastGuess, granted>>

\* submitPriceGuess(encryptedGuess, zkProof) sent by sender; FHE.fromExternal
\* reverts the whole call when the proof does not verify
submitPriceGuess(sender, encryptedGuess, zkProof) ==
    IF VerifyProof(encryptedGuess, zkProof, sender)
    THEN /\ NoteGuess(sender, encryptedGuess)
         /\ StoreGuess(sender, encryptedGuess)
         /\ reverted' = ""
    ELSE /\ reverted' = "InvalidProof"
         /\ UNCHANGED <<chain, lastGuess, granted>>

\* a grant without the require
allowDecryption_noRequire(sender, grantee) ==
    /\ acl' = FHE_allow(acl, _encryptedGuesses[sender], grantee)
    /\ granted' = [granted EXCEPT ![sender] = @ \cup ({grantee} \ {sender, This})]
    /\ reverted' = ""
    /\ UNCHANGED <<_encryptedGuesses, _hasSubmitted, _lastGuessTime, events,
                   lastGuess>>

\* a grant that allows the caller again instead of the grantee
allowDecryption_grantSelf(sender, grantee) ==
    IF _hasSubmitted[sender]
    THEN /\ acl' = FHE_allow(acl, _encryptedGuesses[sender], sender)
         /\ granted' = [granted EXCEPT ![sender] = @ \cup ({grantee} \ {sender, This})]
         /\ reverted' = ""
         /\ UNCHANGED <<_encryptedGuesses, _hasSubmitted, _lastGuessTime, events,
                        lastGuess>>
    ELSE /\ reverted' = "No guess submitted"
         /\ UNCHANGED <<chain, lastGuess, granted>>

\* a grant that also copies the handle into the grantee's slot
allowDecryption_copyToGrantee(sender, grantee) ==
    IF _hasSubmitted[sender]
    THEN /\ acl' = FHE_allow(acl, _encryptedGuesses[sender], grantee)
         /\ _encryptedGuesses' = [_encryptedGuesses EXCEPT
                                     ![grantee] = _encryptedGuesses[sender]]
         /\ granted' = [granted EXCEPT ![sender] = @ \cup ({grantee} \ {sender, This})]
         /\ reverted' = ""
         /\ UNCHANGED <<_hasSubmitted, _lastGuessTime, events, lastGuess>>
    ELSE /\ reverted' = "No guess submitted"
         /\ UNCHANGED <<chain, lastGuess, granted>>

\* a grant that also stamps the caller's record
allowDecryption_touchTime(sender, grantee) ==
    IF _hasSubmitted[sender]
    THEN /\ acl' = FHE_allow(acl, _encryptedGuesses[sender], grantee)
         /\ _lastGuessTime' = [_lastGuessTime EXCEPT ![sender] = blockTimestamp]
         /\ granted' = [granted EXCEPT ![sender] = @ \cup ({grantee} \ {sender, This})]
         /\ reverted' = ""
         /\ UNCHANGED <<_encryptedGuesses, _hasSubmitted, events, lastGuess>>
    ELSE /\ reverted' = "No guess submitted"
         /\ UNCHANGED <<chain, lastGuess, granted>>

\* allowDecryption(grantee) sent by sender
allowDecryption(sender, grantee) ==
    IF _hasSubmitted[sender]
    THEN /\ acl' = FHE_allow(acl, _encryptedGuesses[sender], grantee)
         /\ granted' = [granted EXCEPT ![sender] = @ \cup ({grantee} \ {sender, This})]
         /\ reverted' = ""
         /\ UNCHANGED <<_encryptedGuesses, _hasSubmitted, _lastGuessTime, events,
                        lastGuess>>
    ELSE /\ reverted' = "No guess submitted"
         /\ UNCHANGED <<chain, lastGuess, granted>>

\* ------------------------------------------------------------- actions
Submit ==
    /\ \E s \in Users, h \in Handles \cup {ZeroHandle} :
           \E p \in {h, ZeroHandle} : submitPriceGuess(s, h, p)
    /\ UNCHANGED <<blockTimestamp, hook>>

Allow ==
    /\ \E s \in Users, g \in Addr : allowDecryption(s, g)
    /\ UNCHANGED <<blockTimestamp, hook>>

MineBlock ==
    /\ blockTimestamp < MaxTime
    /\ blockTimestamp' = blockTimestamp + 1
    /\ reverted' = ""
    /\ UNCHANGED <<chain, lastGuess, granted, hook>>

Next == Submit \/ Allow \/ MineBlock

Spec == Init /\ [][Next]_vars

\* --------------------------------------------------- useLaunchPrice.ts
\* encryptedHandle = rawValue
encryptedHandle == rawValue

\* a client-side flag that only asks whether a handle was read
hasSubmittedClient_presentOnly == encryptedHandle # NoData

\* hasSubmitted of the hook: the handle is there and is not the zero handle
hasSubmittedClient == encryptedHandle # NoData /\ encryptedHandle # ZeroHandle

\* decryptParams: the request handed to useFHEDecrypt, ZeroHandle if undefined
decryptParams ==
    IF ~hasSubmittedClient \/ encryptedHandle = NoData \/ ~rendered.hasContract
    THEN ZeroHandle
    ELSE encryptedHandle

\* a clear value taken from whatever entry the results hold
clearValue_anyEntry ==
    IF encryptedHandle = NoData \/ DOMAIN results = {} THEN Undefined
    ELSE LET h == CHOOSE k \in DOMAIN results : TRUE
         IN  [handle |-> encryptedHandle, value |-> results[h]]

\* clearValue: the entry of the results under the handle held now
clearValue ==
    IF encryptedHandle = NoData THEN Undefined
    ELSE IF encryptedHandle \notin DOMAIN results THEN Undefined
    ELSE [handle |-> encryptedHandle, value |-> results[encryptedHandle]]

\* valueDecrypted: that entry exists and BigInt(val) is not 0
valueDecrypted ==
    /\ encryptedHandle # NoData
    /\ encryptedHandle \in DOMAIN results
    /\ results[encryptedHandle] # Zero32

\* React renders with wallet w: the closures of the new render see the
\* current state; the effect on [decryptMsg] copies a new message into the
\* status, the effect on [accounts, chainId] clears the status; a changed
\* account or deployment is a new read whose data is undefined until it
\* settles
Rerender(w) ==
    /\ rendered' = Snapshot(w, busy, decryptMsg)
    /\ status' = IF rendered.account # w.account \/ rendered.chainId # w.chainId
                 THEN ""
                 ELSE IF rendered.decryptMsg # decryptMsg /\ decryptMsg # ""
                 THEN decryptMsg
                 ELSE status
    /\ rawValue' = IF rendered.account # w.account
                      \/ rendered.chainId # w.chainId
                      \/ rendered.hasContract # w.hasContract
                   THEN NoData
                   ELSE rawValue

\* the wallet connects, disconnects, switches account or chain, and the hook
\* is rendered with the new values
WalletChange ==
    /\ \E w \in WalletStates \ {wallet} : wallet' = w /\ Rerender(w)
    /\ UNCHANGED <<ledger, busy, calls, issued, decryption, page>>

\* a state change of the hook (busy, decryptMsg) is rendered
Render ==
    /\ rendered # Snapshot(wallet, busy, decryptMsg)
    /\ Rerender(wallet)
    /\ UNCHANGED <<ledger, wallet, busy, calls, issued, decryption, page>>

\* the read of encryptedGuessOf(accounts[0]) settles
readSettles ==
    /\ rendered.hasContract
    /\ rendered.account \in Users
    /\ rawValue' = encryptedGuessOf(rendered.account)
    /\ rawValue' # rawValue
    /\ UNCHANGED <<ledger, wallet, busy, status, rendered, calls, issued,
                   decryption, page>>

\* a catch without the finally block
Fail_noFinally(i) ==
    /\ status' = "Submission error"
    /\ busy' = busy
    /\ calls' = [calls EXCEPT ![i].pc = "failed"]

\* catch and finally of submitValue
Fail(i) ==
    /\ status' = "Submission error"
    /\ busy' = FALSE
    /\ calls' = [calls EXCEPT ![i].pc = "failed"]

\* submitValue(label, amount) is invoked: the guard reads the busy, accounts
\* and hasContract of the render that created the callback; when it passes,
\* busy and status are set and encryptWith is called
submitValue(i, amount) ==
    /\ calls[i].pc = "idle"
    /\ \A j \in CallIds : j < i => calls[j].pc # "idle"
    /\ IF rendered.busy \/ rendered.account = "none" \/ ~rendered.hasContract
       THEN /\ calls' = [calls EXCEPT ![i].pc = "dropped"]
            /\ UNCHANGED <<busy, status>>
       ELSE /\ busy' = TRUE
            /\ status' = "Encrypting"
            /\ calls' = [calls EXCEPT ![i] = [pc |-> "encrypting", amount |-> amount,
                                              handle |-> ZeroHandle,
                                              encrypted |-> TRUE, written |-> FALSE,
                                              signer |-> rendered.signer,
                                              account |-> rendered.account,
                                              chainId |-> rendered.chainId,
                                              steps |-> <<"encrypt">>]]
    /\ UNCHANGED <<ledger, wallet, rendered, issued, rawValue, decryption>>

\* the handles encryptWith can return for an amount: inputs made for the
\* account of the render, that were not returned before
FreshInputs(account, amount) ==
    {h \in Handles \ issued : ciphertexts[h].user = account
                               /\ ciphertexts[h].plain = amount}

\* a sequence that sends the transaction before it encrypts
encryptSettles_writeFirst(i) ==
    /\ calls[i].pc = "encrypting"
    /\ \/ \E h \in FreshInputs(calls[i].account, calls[i].amount) :
             /\ issued' = issued \cup {h}
             /\ IF calls[i].signer
                THEN /\ calls' = [calls EXCEPT ![i].pc = "sending",
                                               ![i].handle = h,
                                               ![i].written = TRUE,
                                               ![i].steps = <<"write">> \o @]
                     /\ UNCHANGED <<busy, status>>
                ELSE Fail(i)
       \/ Fail(i) /\ UNCHANGED issued
    /\ UNCHANGED <<ledger, wallet, rendered, rawValue, decryption, page>>

\* encryptWith settles: with an input, and then getContract("write") and the
\* submitPriceGuess write follow; or with nothing or an exception
encryptSettles(i) ==
    /\ calls[i].pc = "encrypting"
    /\ \/ \E h \in FreshInputs(calls[i].account, calls[i].amount) :
             /\ issued' = issued \cup {h}
             /\ IF calls[i].signer
                THEN /\ calls' = [calls EXCEPT ![i].pc = "sending",
                                               ![i].handle = h,
                                               ![i].written = TRUE,
                                               ![i].steps = Append(@, "write")]
                     /\ UNCHANGED <<busy, status>>
                ELSE Fail(i)
       \/ Fail(i) /\ UNCHANGED issued
    /\ UNCHANGED <<ledger, wallet, rendered, rawValue, decryption, page>>

\* writeContract.submitPriceGuess(...) settles: the wallet returns the
\* transaction and tx.wait() is called, or the wallet rejects
sendSettles(i) ==
    /\ calls[i].pc = "sending"
    /\ \/ /\ status' = "Waiting for blockchain confirmation..."
          /\ calls' = [calls EXCEPT ![i].pc = "confirming",
                                    ![i].steps = Append(@, "wait")]
          /\ UNCHANGED busy
       \/ Fail(i)
    /\ UNCHANGED <<ledger, wallet, rendered, issued, rawValue, decryption, page>>

\* tx.wait() settles: the transaction ran on the chain and reloadValue is
\* called, or the wait fails and nothing was stored
waitSettles(i) ==
    /\ calls[i].pc = "confirming"
    /\ \/ /\ submitPriceGuess(calls[i].account, calls[i].handle, calls[i].handle)
          /\ reverted' = ""
          /\ status' = "Value submitted"
          /\ calls' = [calls EXCEPT ![i].pc = "reloading",
                                    ![i].steps = Append(@, "refetch")]
          /\ UNCHANGED <<blockTimestamp, busy>>
       \/ Fail(i) /\ UNCHANGED ledger
    /\ UNCHANGED <<wallet, rendered, issued, rawValue, decryption, page>>

\* reloadValue() settles: refetch of the read the hook is subscribed to, with
\* the stored handle or without new data, and the finally block clears busy;
\* or it rejects, and catch and finally run
reloadSettles(i) ==
    /\ calls[i].pc = "reloading"
    /\ \/ /\ rawValue' = IF rendered.hasContract /\ rendered.account \in Users
                         THEN encryptedGuessOf(rendered.account)
                         ELSE rawValue
          /\ busy' = FALSE
          /\ calls' = [calls EXCEPT ![i].pc = "done"]
          /\ UNCHANGED status
       \/ /\ UNCHANGED rawValue
          /\ busy' = FALSE
          /\ calls' = [calls EXCEPT ![i].pc = "done"]
          /\ UNCHANGED status
       \/ Fail(i) /\ UNCHANGED rawValue
    /\ UNCHANGED <<ledger, wallet, rendered, issued, decryption, page>>

Invoke       == /\ \E i \in CallIds, amount \in {Zero32, Max32} :
                      submitValue(i, amount)
                /\ UNCHANGED page
EncryptDone  == \E i \in CallIds : encryptSettles(i)
SendDone     == \E i \in CallIds : sendSettles(i)
WaitDone     == \E i \in CallIds : waitSettles(i)
ReloadDone   == \E i \in CallIds : reloadSettles(i)

HookNext == WalletChange \/ Render \/ Invoke \/ EncryptDone \/ SendDone
            \/ WaitDone \/ ReloadDone

HookSpec == Init /\ [][HookNext]_vars

\* every awaited call of an accepted submitValue settles at some time
HookFairSpec ==
    /\ HookSpec
    /\ \A i \in CallIds :
          /\ WF_vars(encryptSettles(i))
          /\ WF_vars(sendSettles(i))
          /\ WF_vars(waitSettles(i))
          /\ WF_vars(reloadSettles(i))

\* ------------------------------------------------------- decryption
\* canDecrypt: a request is defined, a signer is there, nothing is running
canDecrypt ==
    /\ decryptParams # ZeroHandle
    /\ rendered.signer
    /\ decrypting = NotDecrypting

\* decrypt(): the request of this render goes to the decryption subsystem
decrypt ==
    /\ canDecrypt
    /\ decrypting' = [handle |-> decryptParams, user |-> rendered.account]
    /\ decryptMsg' = "Start decrypt"
    /\ UNCHANGED <<ledger, wallet, busy, status, rendered, calls, issued,
                   rawValue, results, page>>

\* the decryption settles: with the plaintext of the requested handle, or
\* with a failure message and the earlier results kept
decryptSettles ==
    /\ decrypting # NotDecrypting
    /\ \/ /\ userDecryptEuint(decrypting.handle, This, decrypting.user) # Denied
          /\ results' = [h \in {decrypting.handle} |->
                            userDecryptEuint(h, This, decrypting.user)]
          /\ decryptMsg' = "Decryption completed"
       \/ /\ decryptMsg' = "Decryption failed"
          /\ UNCHANGED results
    /\ decrypting' = NotDecrypting
    /\ UNCHANGED <<ledger, wallet, busy, status, rendered, calls, issued,
                   rawValue, page>>

\* -------------------------------------------------- FHELaunchPrice.tsx
IsDigit(c) == \E k \in 1..Len(Digits) : Digits[k] = c
DigitValue(c) == (CHOOSE k \in 1..Len(Digits) : Digits[k] = c) - 1

\* /^\d*\.?\d*$/.test(value)
PriceRegExp(value) ==
    /\ \A k \in 1..Len(value) : IsDigit(value[k]) \/ value[k] = "."
    /\ Cardinality({k \in 1..Len(value) : value[k] = "."}) <= 1

\* the decimal digits d added to the right of the integer <<top, high, low>>
RECURSIVE ParseInt(_, _)
ParseInt(digits, acc) ==
    IF digits = <<>> THEN acc
    ELSE LET low10  == acc[3] * 10 + DigitValue(Head(digits))
             high10 == acc[2] * 10 + (low10 \div 65536)
             top10  == acc[1] * 10 + (high10 \div 65536)
         IN  ParseInt(Tail(digits), <<top10, high10 % 65536, low10 % 65536>>)

\* fractional digits without the zeros at the end
RECURSIVE StripZeros(_)
StripZeros(digits) ==
    IF digits = <<>> THEN <<>>
    ELSE IF digits[Len(digits)] = "0"
    THEN StripZeros(SubSeq(digits, 1, Len(digits) - 1))
    ELSE digits

\* Number(value) of a string that passed the test
Number(value) ==
    IF value = <<>> THEN Zero32
    ELSE IF value = <<".">> THEN NaN
    ELSE LET dot   == IF \E k \in 1..Len(value) : value[k] = "."
                      THEN CHOOSE k \in 1..Len(value) : value[k] = "."
                      ELSE Len(value) + 1
             whole == ParseInt(SubSeq(value, 1, dot - 1), <<0, 0, 0>>)
             frac  == StripZeros(SubSeq(value, dot + 1, Len(value)))
         IN  IF whole[1] = 0 /\ frac = <<>>
             THEN U32(whole[2], whole[3])
             ELSE whole \o [k \in 1..Len(frac) |-> DigitValue(frac[k])]

\* Number(clearValue) of a decrypted euint32
NumberOfBigInt(v) == U32(v[1], v[2])

\* !price
Falsy(price) == price = Null \/ price = NaN \/ price = Zero32

\* what the user can have in the price input
PriceInputs ==
    { <<>>, <<".">>, <<"0", ".", "0">>, <<"1", ".", "5">>,
      <<"4", "2", "9", "4", "9", "6", "7", "2", "9", "5">>,
      <<"4", "2", "9", "4", "9", "6", "7", "2", "9", "6">>,
      <<"1", "e", "3">> }

\* onChange of the price input; the form is rendered when connected
onChange(value) ==
    /\ rendered.account # "none"
    /\ predictedPrice' = IF PriceRegExp(value) THEN Number(value) ELSE Null
    /\ predictedPrice' # predictedPrice
    /\ UNCHANGED <<ledger, wallet, busy, status, rendered, calls, issued,
                   rawValue, decryption, submittedPrice, awaiting, effectDeps>>

\* handleSubmit up to its await: the guard, then submitValue with the price
handleSubmit(i) ==
    /\ rendered.account # "none"
    /\ ~Falsy(predictedPrice)
    /\ ~rendered.busy
    /\ decrypting = NotDecrypting
    /\ submitValue(i, predictedPrice)
    /\ awaiting' = [awaiting EXCEPT ![i] = predictedPrice]
    /\ UNCHANGED <<predictedPrice, submittedPrice, effectDeps>>

\* handleSubmit after its await: the promise of submitValue has resolved
\* (submitValue catches its errors and returns), setSubmittedPrice follows
handleSubmitResumes(i) ==
    /\ awaiting[i] # Null
    /\ calls[i].pc \in {"done", "failed", "dropped"}
    /\ submittedPrice' = awaiting[i]
    /\ awaiting' = [awaiting EXCEPT ![i] = Null]
    /\ UNCHANGED <<ledger, wallet, busy, status, rendered, calls, issued,
                   rawValue, decryption, predictedPrice, effectDeps>>

\* the effect on [valueDecrypted, clearValue]
decryptedEffect ==
    /\ effectDeps # <<valueDecrypted, clearValue>>
    /\ effectDeps' = <<valueDecrypted, clearValue>>
    /\ IF valueDecrypted /\ clearValue # Undefined
       THEN /\ predictedPrice' = NumberOfBigInt(clearValue.value)
            /\ submittedPrice' = NumberOfBigInt(clearValue.value)
       ELSE UNCHANGED <<predictedPrice, submittedPrice>>
    /\ UNCHANGED <<ledger, wallet, busy, status, rendered, calls, issued,
                   rawValue, decryption, awaiting>>

\* the price of the "Your Prediction" candle, Null without one
candlePrice ==
    IF valueDecrypted THEN NumberOfBigInt(clearValue.value) ELSE submittedPrice

Typing       == \E value \in PriceInputs : onChange(value)
Click        == \E i \in CallIds : handleSubmit(i)
Resume       == \E i \in CallIds : handleSubmitResumes(i)

PageNext == WalletChange \/ Render \/ Typing \/ Click \/ Resume
            \/ EncryptDone \/ SendDone \/ WaitDone \/ ReloadDone

PageSpec == Init /\ [][PageNext]_vars

\* the read and decrypt side of the page, with the chain changing under it
ViewNext == Submit \/ WalletChange \/ Render \/ readSettles \/ decrypt
            \/ decryptSettles \/ decryptedEffect

ViewSpec == Init /\ [][ViewNext]_vars

\* ============================================================== claims
\* what `reader` obtains when decrypting the ciphertext of user's record
Decrypt(user, reader) == userDecryptEuint(encryptedGuessOf(user), This, reader)

PermissionSet(user) == acl[encryptedGuessOf(user)]

\* a was resubmitted with another value: an earlier input of a, with a
\* different plaintext, was stored before the one the record holds now
Overwritten(a) ==
    \E h \in Handles :
        /\ ciphertexts[h].user = a /\ acl[h] # {} /\ h # encryptedGuessOf(a)
        /\ ciphertexts[h].plain # lastGuess[a]

IsSubmitBy(s) == \E h \in Handles \cup {ZeroHandle} :
                     \E p \in {h, ZeroHandle} : submitPriceGuess(s, h, p)
IsAllowBy(s)  == \E g \in Addr : allowDecryption(s, g)

\* C1: after a submission of enc(v) with a valid proof by A, hasSubmitted(A)
\* is true and A decrypts encryptedGuessOf(A) to exactly v, for v = 0 and
\* v = 4294967295 alike; an address that never submitted has hasSubmitted
\* false, so a submitted 0 is told apart from no submission.
C1_SubmitRoundTrip ==
    [][\A s \in Users, h \in Handles :
          (VerifyProof(h, h, s) /\ submitPriceGuess(s, h, h))
          => /\ hasSubmitted(s)'
             /\ Decrypt(s, s)' = ciphertexts[h].plain
             /\ \A a \in Addr : lastGuess'[a] = NoGuess => ~hasSubmitted(a)']_vars

C1_Witness ==
    \E a, b \in Users :
        /\ lastGuess[a] = Zero32 /\ Decrypt(a, a) = Zero32 /\ hasSubmitted(a)
        /\ lastGuess[b] = NoGuess /\ ~hasSubmitted(b)
        /\ reverted = ""

\* C2: once A has submitted at least once, hasSubmitted(A) is true and A
\* decrypts its record to the last value it submitted, whatever other
\* addresses did in between.
C2_LastSubmissionWins ==
    \A a \in Users :
        lastGuess[a] # NoGuess
        => hasSubmitted(a) /\ Decrypt(a, a) = lastGuess[a]

C2_Witness ==
    \E a \in Users :
        /\ Overwritten(a)
        /\ Decrypt(a, a) = lastGuess[a]
        /\ \E b \in Users \ {a} : hasSubmitted(b)

\* C3: allowDecryption by an address that has not submitted reverts with
\* "No guess submitted" and leaves every handle, flag, timestamp, permission
\* set and the event log as they were, for every grantee.
C3_AllowWithoutGuessReverts ==
    [][\A s \in Users, g \in Addr :
          (~hasSubmitted(s) /\ allowDecryption(s, g))
          => (reverted' = "No guess submitted" /\ UNCHANGED chain)]_vars

C3_Witness ==
    /\ reverted = "No guess submitted"
    /\ \E a \in Users : hasSubmitted(a) /\ PermissionSet(a) # {}

\* C4: after a successful allowDecryption(G) by A, G is in the permission set
\* of A's ciphertext and G decrypts it to the value A decrypts it to, the
\* value A submitted last.
C4_GranteeDecryptsSameValue ==
    [][\A s \in Users, g \in Addr :
          (hasSubmitted(s) /\ allowDecryption(s, g))
          => /\ g \in PermissionSet(s)'
             /\ Decrypt(s, g)' = Decrypt(s, s)'
             /\ Decrypt(s, g)' = lastGuess[s]]_vars

C4_Witness ==
    \E a \in Users : \E g \in Users \ {a} :
        /\ g \in granted[a]
        /\ Overwritten(a)
        /\ Decrypt(a, g) = lastGuess[a]

\* C5: an address that never made a successful submission has hasSubmitted
\* false, the zero handle and timestamp 0, also when others named it as a
\* grantee.
C5_UnknownAddressDefaults ==
    \A a \in Addr :
        lastGuess[a] = NoGuess
        => /\ hasSubmitted(a) = FALSE
           /\ encryptedGuessOf(a) = ZeroHandle
           /\ lastGuessTimestamp(a) = 0

C5_Witness ==
    \E a, b \in Users :
        /\ lastGuess[a] = NoGuess
        /\ a \in granted[b]
        /\ a \in PermissionSet(b)
        /\ lastGuessTimestamp(b) > 0

C7_OnlyOwnerOrGranted ==
    /\ [](\A a \in Users : PermissionSet(a) \subseteq {a, This} \cup granted[a])
    /\ [][\A a \in Users : \A b \in Users \ {a} :
             \/ acl'[encryptedGuessOf(a)] = acl[encryptedGuessOf(a)]
             \/ ~(IsSubmitBy(b) \/ IsAllowBy(b))]_vars

C7_Witness ==
    \E a \in Users : \E b \in Users \ {a} :
        /\ hasSubmitted(a) /\ hasSubmitted(b)
        /\ b \in granted[a] /\ b \in PermissionSet(a)
        /\ a \notin PermissionSet(b)

\* C8: a submitPriceGuess whose proof does not verify reverts and leaves the
\* handles, flags, timestamps, permission sets and the event log unchanged,
\* on a first submission and on a resubmission.
C8_InvalidProofAborts ==
    [][\/ (reverted' = "InvalidProof" /\ UNCHANGED chain)
       \/ \A s \in Users, h \in Handles \cup {ZeroHandle} :
             \A p \in {h, ZeroHandle} :
                 ~(~VerifyProof(h, p, s) /\ submitPriceGuess(s, h, p))]_vars

C8_Witness ==
    /\ reverted = "InvalidProof"
    /\ \A a \in Users : hasSubmitted(a) /\ events[a] # <<>>

\* C9: a call by A leaves the handle, flag and timestamp of every other
\* address as they were.
C9_ParticipantsIndependent ==
    [][\A a \in Users :
          \/ \A b \in Addr \ {a} :
                /\ encryptedGuessOf(b)' = encryptedGuessOf(b)
                /\ hasSubmitted(b)' = hasSubmitted(b)
                /\ lastGuessTimestamp(b)' = lastGuessTimestamp(b)
          \/ ~(IsSubmitBy(a) \/ IsAllowBy(a))]_vars

C9_Witness ==
    \E a \in Users : \E b \in Users \ {a} :
        /\ Len(events[a]) = 2 /\ Len(events[b]) = 1
        /\ lastGuess[a] # lastGuess[b]
        /\ Decrypt(a, a) = lastGuess[a]
        /\ Decrypt(b, b) = lastGuess[b]
        /\ lastGuessTimestamp(a) # lastGuessTimestamp(b)

\* C14: hasSubmitted(A) is false until A's first accepted submission, true
\* after it, and no step of any kind turns it back to false.
C14_HasSubmittedMonotone ==
    /\ [](\A a \in Addr : hasSubmitted(a) <=> lastGuess[a] # NoGuess)
    /\ [][\A a \in Addr : hasSubmitted(a) => hasSubmitted(a)']_vars

C14_Witness ==
    \E a \in Users : \E b \in Users \ {a} :
        /\ hasSubmitted(a) /\ Len(events[a]) = 2 /\ b \in granted[a]
        /\ ~hasSubmitted(b)
        /\ reverted = "No guess submitted"

\* C15: whenever hasSubmitted(A) is true, A and the contract are both in the
\* permission set of the ciphertext encryptedGuessOf(A) returns, after the
\* first submission and after every resubmission.
C15_OwnerAndContractAllowed ==
    \A a \in Users :
        hasSubmitted(a) => {a, This} \subseteq PermissionSet(a)

C15_Witness ==
    \E a \in Users :
        /\ hasSubmitted(a) /\ Overwritten(a)
        /\ PermissionSet(a) = {a, This}

LastTimeOf(log) == IF log = <<>> THEN 0 ELSE log[Len(log)]

\* C16: an accepted submission by A at block time t sets lastGuessTimestamp(A)
\* to t and appends exactly one event (A, t); no other step touches A's
\* events; so lastGuessTimestamp(A) is the timestamp of A's latest event (0
\* without one) and never decreases.
C16_TimestampFollowsEvents ==
    /\ [](\A a \in Addr : lastGuessTimestamp(a) = LastTimeOf(events[a]))
    /\ [][\A a \in Users :
             /\ lastGuessTimestamp(a)' >= lastGuessTimestamp(a)
             /\ \A h \in Handles :
                   (VerifyProof(h, h, a) /\ submitPriceGuess(a, h, h))
                   => /\ lastGuessTimestamp(a)' = blockTimestamp
                      /\ events' = [events EXCEPT
                                       ![a] = Append(@, blockTimestamp)]
             /\ events'[a] # events[a]
                   => \E h \in Handles :
                         VerifyProof(h, h, a) /\ submitPriceGuess(a, h, h)]_vars

C16_Witness ==
    \E a \in Users :
        /\ Len(events[a]) = 2
        /\ events[a][1] < events[a][2]
        /\ lastGuessTimestamp(a) = events[a][2]

\* C17: a successful allowDecryption(G) by A adds G to the permission set of
\* A's current ciphertext and changes no handle, flag, timestamp, other
\* permission set or event; repeated with the same G it changes nothing.
C17_GrantChangesOnlyPermissions ==
    [][\A s \in Users, g \in Addr :
          (hasSubmitted(s) /\ allowDecryption(s, g))
          => /\ acl' = [acl EXCEPT ![encryptedGuessOf(s)] = @ \cup {g}]
             /\ UNCHANGED <<_encryptedGuesses, _hasSubmitted, _lastGuessTime, events>>
             /\ g \in PermissionSet(s) => UNCHANGED <<chain, granted>>]_vars

C17_Witness ==
    \E a \in Users : \E g \in Users \ {a} :
        /\ PermissionSet(a) = {a, This, g}
        /\ hasSubmitted(g) /\ PermissionSet(g) = {g, This}
        /\ lastGuessTimestamp(a) < blockTimestamp

\* the accepted invocations that have not reached the end of submitValue
InFlight == {i \in CallIds :
                calls[i].pc \in {"encrypting", "sending", "confirming", "reloading"}}

\* C10: at most one submit/confirm sequence is in flight at a time, and an
\* invocation made while an earlier accepted one has not finished is dropped
\* without an encryption call or a contract write.
C10_OneSubmissionInFlight ==
    /\ Cardinality(InFlight) <= 1
    /\ \A i \in CallIds : calls[i].pc = "dropped"
                           => ~calls[i].encrypted /\ ~calls[i].written

\* C11: an invocation of submitValue made while busy is true, or without a
\* connected account or a signing provider, or without a known contract,
\* leaves busy and status as they were and makes no encryption call and no
\* contract call.
C11_GuardedCallIsNoOp ==
    [][\A i \in CallIds, amount \in {Zero32, Max32} :
          ((busy \/ rendered.account = "none" \/ ~rendered.signer
                 \/ ~rendered.hasContract)
           /\ submitValue(i, amount))
          => /\ UNCHANGED <<busy, status, issued, ledger>>
             /\ ~calls'[i].encrypted
             /\ ~calls'[i].written]_vars

\* C12: whichever step of an accepted submitValue fails, the sequence ends
\* there with busy = false and the status "Submission error", an ended
\* sequence takes no further step, busy is false whenever no sequence is in
\* flight, and when every awaited call settles busy becomes false again.
C12_ErrorPathsReturnToIdle ==
    /\ [](InFlight = {} => busy = FALSE)
    /\ [][\A i \in CallIds :
             /\ (i \in InFlight /\ calls'[i].pc = "failed")
                => /\ busy' = FALSE
                   /\ status' = "Submission error"
                   /\ calls'[i].steps = calls[i].steps
             /\ calls[i].pc = "failed" => calls'[i] = calls[i]]_vars
    /\ (busy ~> ~busy)

C12_Witness ==
    \E i \in CallIds :
        /\ calls[i].pc = "failed" /\ Len(calls[i].steps) = 4
        /\ busy = FALSE /\ status = "Submission error"

\* C13: a change of the active account or chain empties the status, and no
\* step of a submitValue that was started under another account or chain
\* writes a status text afterwards.
C13_StatusNeverLeaks ==
    [][/\ (rendered'.account # rendered.account
              \/ rendered'.chainId # rendered.chainId) => status' = ""
       /\ \A i \in CallIds :
             (calls'[i].pc # calls[i].pc
              /\ calls'[i].pc \in {"confirming", "reloading", "failed"})
             => /\ calls[i].account = rendered'.account
                /\ calls[i].chainId = rendered'.chainId]_vars

\* the calls submitValue makes, in the order of its body
StepOrder == <<"encrypt", "write", "wait", "refetch">>

\* each call was made at most once and in that order, no write follows a
\* failed encryption, and a confirmed transaction is followed by the re-fetch
StepsInOrder ==
    \A i \in CallIds :
        /\ Len(calls[i].steps) <= Len(StepOrder)
        /\ calls[i].steps = SubSeq(StepOrder, 1, Len(calls[i].steps))
        /\ calls[i].handle = ZeroHandle => Len(calls[i].steps) <= 1
        /\ calls[i].pc \in {"reloading", "done"} => calls[i].steps = StepOrder

\* C18 as stated: the steps run in the order encrypt, write, wait, re-fetch,
\* each at most once, never a write after a failed encryption; and a sequence
\* whose transaction was confirmed ends with busy = false and the status
\* "Value submitted".
C18_OrderedAndEndsWithSuccess ==
    /\ []StepsInOrder
    /\ [][\A i \in CallIds :
             (calls[i].pc = "reloading" /\ calls'[i].pc # "reloading")
             => (busy' = FALSE /\ status' = "Value submitted")]_vars

\* C18 amended: the same order; the confirmation sets the status "Value
\* submitted" and issues the re-fetch; the sequence then ends with busy =
\* false, leaving the status as it is when the re-fetch resolves and setting
\* "Submission error" when it rejects.
C18_OrderedStepsThenIdle ==
    /\ []StepsInOrder
    /\ [][\A i \in CallIds :
             /\ (calls[i].pc = "confirming" /\ calls'[i].pc = "reloading")
                => (status' = "Value submitted" /\ calls'[i].steps = StepOrder)
             /\ (calls[i].pc = "reloading" /\ calls'[i].pc # "reloading")
                => /\ busy' = FALSE
                   /\ status' = IF calls'[i].pc = "failed"
                                THEN "Submission error" ELSE status]_vars

C18_Witness ==
    \E i \in CallIds :
        /\ calls[i].pc = "done" /\ calls[i].steps = StepOrder
        /\ busy = FALSE /\ status = "Value submitted"
        /\ rawValue = calls[i].handle

\* C19: when the handle the hook holds is the one stored on-chain for the
\* current account, the client-side hasSubmitted equals the on-chain
\* hasSubmitted of that account, also when the submitted guess is 0.
C19_ClientFlagMatchesChain ==
    (rendered.account \in Users
     /\ encryptedHandle = encryptedGuessOf(rendered.account))
    => (hasSubmittedClient <=> hasSubmitted(rendered.account))

C19_Witness ==
    /\ rendered.account \in Users
    /\ encryptedHandle = encryptedGuessOf(rendered.account)
    /\ lastGuess[rendered.account] = Zero32
    /\ hasSubmittedClient

\* C20: valueDecrypted is true exactly when the results hold an entry for
\* the handle held now and that entry is not 0; clearValue is that entry,
\* the plaintext of the handle held now, and never the entry cached for a
\* handle held before.
C20_ClearValueOfCurrentHandle ==
    /\ valueDecrypted <=> (clearValue # Undefined /\ clearValue.value # Zero32)
    /\ clearValue # Undefined
       => /\ clearValue.handle = encryptedHandle
          /\ encryptedHandle \in DOMAIN results
          /\ clearValue.value = ciphertexts[encryptedHandle].plain
    /\ encryptedHandle \notin DOMAIN results
       => (clearValue = Undefined /\ ~valueDecrypted)

C20_Witness ==
    \E h \in DOMAIN results :
        /\ results[h] = Max32
        /\ ciphertexts[h].user = rendered.account
        /\ encryptedHandle \in Handles \ {h}
        /\ clearValue = Undefined /\ ~valueDecrypted

\* a number the builder's add32 accepts: an integer in 0 .. 2 ** 32 - 1
IsUint32(n) == Len(n) = 2 /\ n[1] \in 0..65535 /\ n[2] \in 0..65535

\* C21: handleSubmit sets submittedPrice to the entered price only after a
\* submitValue that ended with a confirmed transaction; after one that ended
\* in "Submission error" or was dropped by its guard, submittedPrice is as
\* it was.
C21_SubmittedOnlyWhenConfirmed ==
    [][\A i \in CallIds :
          (awaiting[i] # Null /\ awaiting'[i] = Null)
          => \/ calls[i].pc = "done"
             \/ submittedPrice' = submittedPrice]_vars

\* C22: every amount handed to the builder's add32 is an integer in
\* 0 .. 4294967295.
C22_AmountIsUint32 ==
    \A i \in CallIds : calls[i].encrypted => IsUint32(calls[i].amount)

====
